---- MODULE Spec2Model ----
(***************************************************************************)
(* A model of the CodeCollabHub tutorial notebooks.                        *)
(*                                                                         *)
(*   SpecAsync      Async_Programming_Tutorial.ipynb: the run_tasks and    *)
(*                  fetch_data programs on the asyncio event loop          *)
(*                  (FairSpecAsync: the loop keeps running).               *)
(*   SpecPatterns   Design Patterns and SOLID Principles.ipynb: the        *)
(*                  singleton Logger and the observers of Subject.         *)
(*   SpecMemo       Decorators_Python_Tutorial.ipynb: memoize, fibonacci.  *)
(*   SpecCache      Decorators_Python_Tutorial.ipynb: cache_results.       *)
(*   SpecValidate   Decorators_Python_Tutorial.ipynb: validate_input.      *)
(*   SpecIterators  Iterators_and_Generators.ipynb: Countdown,             *)
(*                  countdown_generator, fibonacci_generator.              *)
(*   SpecAccumulator  Iterators_and_Generators.ipynb: accumulator.         *)
(*   SpecTemperature  Classes-checkpoint.ipynb: Temperature.celsius.       *)
(*                                                                         *)
(* The notebooks share no state: each specification runs one of them and   *)
(* leaves the variables of the others as they are initially.               *)
(*                                                                         *)
(* The event loop is the library the notebook code runs on; it is modelled *)
(* as CPython's asyncio does it (BaseEventLoop._run_once, Task.__step,     *)
(* asyncio.sleep, asyncio.gather, asyncio.run) at the call sites of the    *)
(* notebook.  The notebook's first code cell calls nest_asyncio.apply(),   *)
(* which replaces asyncio.run and the loop's run_until_complete: a cell    *)
(* run after it (nested) has no stop callback, no _cancel_all_tasks and no *)
(* loop.close(); a cell run on its own has asyncio's own asyncio.run.      *)
(***************************************************************************)
EXTENDS Integers, Sequences, FiniteSets, TLC

(***************************************************************************)
(* Bounds of the model.                                                    *)
(***************************************************************************)
\* The clock of the loop counts ticks; one second is this many ticks.
TicksPerSecond == 3
\* The ticks that pass, in total, while callbacks are running (printing,
\* scheduling); the rest of the time passes while the loop waits in select.
MaxBusyTicks == 2

\* Logger() is called at most this often.
MaxLoggerCalls == 3
\* Subject._observers holds at most this many entries,
MaxObservers == 3
\* and attach is called at most this often.
MaxAttach == 4
\* fibonacci is called with 0..MaxFibArg.
MaxFibArg == 10
\* compute_expensive is called with -MaxComputeArg..MaxComputeArg,
MaxComputeArg == 1
\* at most this often with one argument.
MaxCallsPerArg == 3

\* Countdown and countdown_generator are made with -MaxStart..MaxStart,
MaxStart == 5
\* and next() is called at most this often on an exhausted iterator.
MaxStops == 2
\* next() is called at most this often on fibonacci_generator().
MaxFibYields == 12
\* send is called at most this often on accumulator().
MaxSends == 4
\* multiply is called with the integers -MaxIntArg..MaxIntArg (and with
\* values of other types),
MaxIntArg == 2
\* and its body runs at most this often.
MaxMultiplyCalls == 3
\* Temperatures are at most this many hundredths of a degree away from
\* -273.15 (or are 0).
MaxTempOffset == 4

FibArgs == 0..MaxFibArg
ComputeArgs == (0 - MaxComputeArg)..MaxComputeArg

(***************************************************************************)
(* Program constants of the asynchronous programs.                         *)
(***************************************************************************)
Task1Delay == 2
Task2Delay == 3
Task3Delay == 1
FetchDelay == 1
urls == <<"http://example.com/api/data1", "http://example.com/api/data2">>

Programs == {"run_tasks", "fetch_data"}

\* The delay, in seconds, each gathered coroutine sleeps for, in the order the
\* coroutines are handed to the loop.
Delays(p) ==
  IF p = "run_tasks"
  THEN <<Task1Delay, Task2Delay, Task3Delay>>
  ELSE [i \in 1..Len(urls) |-> FetchDelay]

Tasks(p) == 1..Len(Delays(p))

\* The task asyncio.run makes of the top-level coroutine (run_tasks, main).
MainTask == 0

VARIABLES
  prog,            \* the program asyncio.run runs
  fault,           \* where, if anywhere, a task body raises
  nested,          \* whether nest_asyncio.apply() has run: asyncio.run is then
                   \* nest_asyncio's run, on a loop it leaves open
  now,             \* loop.time(), in ticks
  busy,            \* ticks spent so far inside callbacks
  ready,           \* loop._ready: FIFO of handles
  ntodo,           \* handles left to run in the current _run_once iteration
  scheduled,       \* loop._scheduled: binary heap of timer handles
  running,         \* the handle being run, or NoHandle
  tstate,          \* the state of each gathered task
  sleepFut,        \* the future each task's asyncio.sleep waits on
  mustCancel,      \* Task._must_cancel
  timerCancelled,  \* TimerHandle._cancelled of each task's sleep timer
  mainState,       \* the state of the top-level task
  outer,           \* gather's outer future
  nfinished,       \* gather's nfinished
  stopping,        \* loop._stopping
  phase,           \* asyncio.run: "run", "teardown" (_cancel_all_tasks),
                   \* "asyncgens", "executor" (the two shutdown runs), "closed",
                   \* or "returned" (nest_asyncio's run: the loop stays open)
  tdLeft,          \* tasks the teardown gather still waits for
  output,          \* what has been printed
  \* Design Patterns and SOLID Principles.ipynb
  instances,       \* SingletonMeta._instances: class -> its instance
  nobjects,        \* objects made so far by type.__call__
  refs,            \* what the calls Logger() returned, in order
  observers,       \* Subject._observers
  attachNo,        \* for each entry of _observers, which attach call made it
  nattach,         \* attach calls so far
  delivered,       \* the update calls of the latest notify, in order
  lastOp,          \* the latest operation on the subject
  lastMessage,     \* the message of the latest notify
  observersBefore, \* _observers as the latest operation found it
  \* Decorators_Python_Tutorial.ipynb
  fibCache,        \* memoize's cache for fibonacci: argument -> result
  fibStack,        \* the calls of fibonacci in progress, outermost first
  fibRet,          \* the value the latest finished call returned, or None
  fibArg,          \* the argument of the latest top-level call
  fibExec,         \* how often fibonacci's body has run, per argument
  crCache,         \* cache_results' cache for compute_expensive
  crExec,          \* how often compute_expensive's body has run, per argument
  crCalls,         \* how often the wrapper has been called, per argument
  crFirst,         \* what the first call returned, per argument
  crLast,          \* the latest call: argument, whether it printed, result
  viX,             \* the latest call multiply(x, y): x,
  viY,             \* y,
  viOutcome,       \* and what the call did: returned a value, or raised
  viCalls,         \* how often multiply's body has run
  viCallsBefore,   \* viCalls before the latest call
  \* Iterators_and_Generators.ipynb
  cdStart,         \* the start Countdown and countdown_generator were given
  cdCurrent,       \* Countdown.current
  cdOut,           \* what next(countdown) has returned, in order
  cdStops,         \* how often next(countdown) has raised StopIteration
  genState,        \* countdown_generator: "created", "suspended", "done"
  genCurrent,      \* its local current
  genOut,          \* what next on it has returned, in order
  genStops,        \* how often next on it has raised StopIteration
  fgState,         \* fibonacci_generator: "created", "suspended", "done"
  fgA,             \* its local a
  fgB,             \* its local b
  fgOut,           \* what next(fib_gen) has returned, in order
  accState,        \* accumulator: "created", "suspended"
  accTotal,        \* its local total
  accSent,         \* what has been sent to it, in order
  accRets,         \* what the sends returned, in order
  accError,        \* whether the latest call on it raised TypeError
  \* Classes-checkpoint.ipynb
  tCelsius,        \* Temperature._celsius, in hundredths of a degree
  tLastOp,         \* the latest operation: "init", "set", "raise", "get"
  tError,          \* the exception the latest operation raised, or ""
  tAssigned,       \* the value of the latest assignment to celsius
  tBefore,         \* _celsius before the latest operation
  tRead            \* what the latest read of celsius returned

asyncVars == <<prog, fault, nested, now, busy, ready, ntodo, scheduled, running, tstate,
               sleepFut, mustCancel, timerCancelled, mainState, outer,
               nfinished, stopping, phase, tdLeft, output>>

patternVars == <<instances, nobjects, refs, observers, attachNo, nattach,
                 delivered, lastOp, lastMessage, observersBefore>>

memoVars == <<fibCache, fibStack, fibRet, fibArg, fibExec>>

cacheVars == <<crCache, crExec, crCalls, crFirst, crLast>>

validateVars == <<viX, viY, viOutcome, viCalls, viCallsBefore>>

iterVars == <<cdStart, cdCurrent, cdOut, cdStops, genState, genCurrent, genOut,
              genStops, fgState, fgA, fgB, fgOut>>

accVars == <<accState, accTotal, accSent, accRets, accError>>

tempVars == <<tCelsius, tLastOp, tError, tAssigned, tBefore, tRead>>

otherThanAsync == <<patternVars, memoVars, cacheVars, validateVars, iterVars,
                    accVars, tempVars>>
otherThanPatterns == <<asyncVars, memoVars, cacheVars, validateVars, iterVars,
                       accVars, tempVars>>
otherThanMemo == <<asyncVars, patternVars, cacheVars, validateVars, iterVars,
                   accVars, tempVars>>
otherThanCache == <<asyncVars, patternVars, memoVars, validateVars, iterVars,
                    accVars, tempVars>>
otherThanValidate == <<asyncVars, patternVars, memoVars, cacheVars, iterVars,
                       accVars, tempVars>>
otherThanIterators == <<asyncVars, patternVars, memoVars, cacheVars,
                        validateVars, accVars, tempVars>>
otherThanAccumulator == <<asyncVars, patternVars, memoVars, cacheVars,
                          validateVars, iterVars, tempVars>>
otherThanTemperature == <<asyncVars, patternVars, memoVars, cacheVars,
                          validateVars, iterVars, accVars>>

vars == <<asyncVars, patternVars, memoVars, cacheVars, validateVars, iterVars,
          accVars, tempVars>>

(***************************************************************************)
(* Handles, messages, faults.                                              *)
(***************************************************************************)
Handle(k, t) == [kind |-> k, task |-> t]
NoHandle == Handle("none", MainTask)

Msg(k, t) == [kind |-> k, task |-> t]
AllCompleted == Msg("all", MainTask)

NoFault == [task |-> MainTask, at |-> "none"]
Faults(p) == {NoFault} \cup [task : Tasks(p), at : {"start", "end"}]

(***************************************************************************)
(* heapq, as loop._scheduled uses it. Positions are 1-based here.          *)
(***************************************************************************)
\* TimerHandle.__lt__ compares the deadlines only.
TimerLess(a, b) == a.when < b.when

RECURSIVE SiftDown(_, _, _, _)
SiftDown(heap, startpos, pos, newitem) ==
  IF pos > startpos
  THEN LET parentpos == pos \div 2
       IN IF TimerLess(newitem, heap[parentpos])
          THEN SiftDown([heap EXCEPT ![pos] = heap[parentpos]], startpos,
                        parentpos, newitem)
          ELSE [heap EXCEPT ![pos] = newitem]
  ELSE [heap EXCEPT ![pos] = newitem]

HeapPush(heap, item) == SiftDown(Append(heap, item), 1, Len(heap) + 1, item)

RECURSIVE SiftUpLoop(_, _, _)
SiftUpLoop(heap, pos, endpos) ==
  LET childpos == 2 * pos
      rightpos == childpos + 1
  IN IF childpos <= endpos
     THEN LET c == IF rightpos <= endpos
                      /\ ~TimerLess(heap[childpos], heap[rightpos])
                   THEN rightpos
                   ELSE childpos
          IN SiftUpLoop([heap EXCEPT ![pos] = heap[c]], c, endpos)
     ELSE <<heap, pos>>

SiftUp(heap, pos) ==
  LET newitem == heap[pos]
      r == SiftUpLoop(heap, pos, Len(heap))
  IN SiftDown(r[1], pos, r[2], newitem)

\* <<the smallest item, the heap without it>>
HeapPop(heap) ==
  LET lastelt == heap[Len(heap)]
      rest == SubSeq(heap, 1, Len(heap) - 1)
  IN IF rest = <<>>
     THEN <<lastelt, <<>>>>
     ELSE <<rest[1], SiftUp([rest EXCEPT ![1] = lastelt], 1)>>

(***************************************************************************)
(* BaseEventLoop._run_once                                                 *)
(***************************************************************************)
\* while self._scheduled and self._scheduled[0]._cancelled: heappop
RECURSIVE DropCancelled(_, _)
DropCancelled(heap, cancelled) ==
  IF heap # <<>> /\ cancelled[heap[1].task]
  THEN DropCancelled(HeapPop(heap)[2], cancelled)
  ELSE heap

\* The timers whose deadline has come move to the ready queue, in heappop
\* order: <<heap, ready>>.
RECURSIVE MoveDue(_, _, _)
MoveDue(heap, rdy, time) ==
  IF heap # <<>> /\ heap[1].when <= time
  THEN LET p == HeapPop(heap)
       IN MoveDue(p[2], Append(rdy, Handle("timer", p[1].task)), time)
  ELSE <<heap, rdy>>

\* When nothing is ready the loop sleeps in select until the first deadline.
SelectWake(heap, rdy, time) ==
  IF rdy = <<>> /\ heap # <<>> /\ heap[1].when > time THEN heap[1].when ELSE time

\* The callbacks of a finished task, in the order they were added: gather's
\* _done_callback, then the one of asyncio.run's teardown gather.
DoneCallbacks(t, ph) ==
  <<Handle("gcb", t)>> \o (IF ph = "teardown" THEN <<Handle("tcb", t)>> ELSE <<>>)


\* The orders in which a set can be walked (all_tasks() returns a set).
Orders(S) == {f \in [1..Cardinality(S) -> S] : \A i, j \in DOMAIN f : f[i] = f[j] => i = j}

(***************************************************************************)
(* The other notebooks' objects as they are before their cells run.        *)
(***************************************************************************)
InitPatterns ==
  /\ instances = <<>>
  /\ nobjects = 0
  /\ refs = <<>>
  /\ observers = <<>>
  /\ attachNo = <<>>
  /\ nattach = 0
  /\ delivered = <<>>
  /\ lastOp = "init"
  /\ lastMessage = ""
  /\ observersBefore = <<>>

PatternsIdle == InitPatterns

\* No value: what a call that has not returned has for a result.
None == 0 - 1

InitMemo ==
  /\ fibCache = <<>>
  /\ fibStack = <<>>
  /\ fibRet = None
  /\ fibArg = 0
  /\ fibExec = [n \in FibArgs |-> 0]

MemoIdle == InitMemo

InitCache ==
  /\ crCache = <<>>
  /\ crExec = [x \in ComputeArgs |-> 0]
  /\ crCalls = [x \in ComputeArgs |-> 0]
  /\ crFirst = [x \in ComputeArgs |-> None]
  /\ crLast = [arg |-> 0, printed |-> FALSE, value |-> None]

CacheIdle == InitCache

\* A Python value: its type and what it holds (a bool 0 or 1, a float its
\* tenths, a str of one digit the digit).
Value(t, v) == [type |-> t, val |-> v]

\* multiply has not been called.
InitValidate ==
  /\ viX = Value("int", 0)
  /\ viY = Value("int", 0)
  /\ viOutcome = [kind |-> "none", error |-> "", value |-> Value("NoneType", 0)]
  /\ viCalls = 0
  /\ viCallsBefore = 0

ValidateIdle == InitValidate

Starts == (0 - MaxStart)..MaxStart

\* countdown = Countdown(start) and countdown_generator(start) have been
\* made, and so has fib_gen = fibonacci_generator(); no body of a generator
\* has begun to run, so that its locals have no value.
InitGenerators(starts) ==
  /\ cdStart \in starts
  /\ cdCurrent = cdStart
  /\ cdOut = <<>>
  /\ cdStops = 0
  /\ genState = "created"
  /\ genCurrent = None
  /\ genOut = <<>>
  /\ genStops = 0
  /\ fgState = "created"
  /\ fgA = None
  /\ fgB = None
  /\ fgOut = <<>>

IteratorsIdle == InitGenerators({5})

\* acc = accumulator()
InitAcc ==
  /\ accState = "created"
  /\ accTotal = None
  /\ accSent = <<>>
  /\ accRets = <<>>
  /\ accError = FALSE

AccumulatorIdle == InitAcc

\* -273.15, the bound of the setter of celsius, in hundredths of a degree.
AbsoluteZero == 0 - 27315

TempValues ==
  {AbsoluteZero + d : d \in (0 - MaxTempOffset)..MaxTempOffset} \cup {0}

\* Temperature(celsius): __init__ stores its argument as it is.
InitTemp(values) ==
  /\ tCelsius \in values
  /\ tLastOp = "init"
  /\ tError = ""
  /\ tAssigned = tCelsius
  /\ tBefore = tCelsius
  /\ tRead = None

TemperatureIdle == InitTemp({0})

LaterNotebooksIdle ==
  /\ ValidateIdle
  /\ IteratorsIdle
  /\ AccumulatorIdle
  /\ TemperatureIdle

(***************************************************************************)
(* The initial state: asyncio.run(main) has made the loop and the          *)
(* top-level task, whose first step is in the ready queue.                 *)
(***************************************************************************)
InitLoop(programs, faults, patches) ==
  /\ prog \in programs
  /\ fault \in faults
  /\ nested \in patches
  /\ now = 0
  /\ busy = 0
  /\ ready = <<Handle("step", MainTask)>>
  /\ ntodo = 0
  /\ scheduled = <<>>
  /\ running = NoHandle
  /\ tstate = [t \in Tasks(prog) |-> "new"]
  /\ sleepFut = [t \in Tasks(prog) |-> "none"]
  /\ mustCancel = [t \in Tasks(prog) |-> FALSE]
  /\ timerCancelled = [t \in Tasks(prog) |-> FALSE]
  /\ mainState = "new"
  /\ outer = "pending"
  /\ nfinished = 0
  /\ stopping = FALSE
  /\ phase = "run"
  /\ tdLeft = 0
  /\ output = <<>>

\* In notebook order, nest_asyncio.apply() has run.
AsyncIdle == InitLoop({"run_tasks"}, {NoFault}, {TRUE})

InitAsync ==
  /\ \E p \in Programs : InitLoop({p}, Faults(p), BOOLEAN)
  /\ PatternsIdle
  /\ MemoIdle
  /\ CacheIdle
  /\ LaterNotebooksIdle

(***************************************************************************)
(* The event loop.                                                         *)
(***************************************************************************)
\* One iteration of run_forever begins: cancelled timers at the top of the
\* heap are dropped, select waits for the first deadline if nothing is ready,
\* the due timers join the ready queue, and the handles that are ready now
\* are the ones this iteration runs.
\* nest_asyncio's run_until_complete: while not f.done(): self._run_once()
MainFinished == mainState \in {"done", "failed"}

RunOnce ==
  /\ phase \in {"run", "teardown", "asyncgens", "executor"}
  /\ running = NoHandle
  /\ ntodo = 0
  /\ ~stopping
  /\ ~(nested /\ MainFinished)
  /\ LET heap0 == DropCancelled(scheduled, timerCancelled)
         wake == SelectWake(heap0, ready, now)
         m == MoveDue(heap0, ready, wake)
     IN /\ (ready # <<>> \/ heap0 # <<>>)
        /\ now' = wake
        /\ scheduled' = m[1]
        /\ ready' = m[2]
        /\ ntodo' = Len(m[2])
  /\ UNCHANGED <<otherThanAsync, prog, fault, nested, busy, running, tstate, sleepFut, mustCancel,
                 timerCancelled, mainState, outer, nfinished, stopping, phase,
                 tdLeft, output>>

\* handle = self._ready.popleft(); if handle._cancelled: continue; handle._run()
\* One handle runs at a time: the next is taken only when none is running.
DispatchGuardPreemptive == ntodo > 0
DispatchGuard == running = NoHandle /\ ntodo > 0

Dispatch ==
  /\ DispatchGuard
  /\ LET h == Head(ready)
     IN /\ ready' = Tail(ready)
        /\ ntodo' = ntodo - 1
        /\ running' = IF h.kind = "timer" /\ timerCancelled[h.task]
                      THEN NoHandle
                      ELSE h
  /\ UNCHANGED <<otherThanAsync, prog, fault, nested, now, busy, scheduled, tstate, sleepFut,
                 mustCancel, timerCancelled, mainState, outer, nfinished,
                 stopping, phase, tdLeft, output>>

\* Time passes while a callback runs.
Tick ==
  /\ running # NoHandle
  /\ busy < MaxBusyTicks
  /\ now' = now + 1
  /\ busy' = busy + 1
  /\ UNCHANGED <<otherThanAsync, prog, fault, nested, ready, ntodo, scheduled, running, tstate,
                 sleepFut, mustCancel, timerCancelled, mainState, outer,
                 nfinished, stopping, phase, tdLeft, output>>

(***************************************************************************)
(* The top-level coroutine.                                                *)
(***************************************************************************)
\* The order in which gather (create_task) hands the coroutines to the loop.
GatherOrderReversed(p) == [i \in Tasks(p) |-> Handle("step", Len(Delays(p)) + 1 - i)]
GatherOrder(p) == [i \in Tasks(p) |-> Handle("step", i)]

\* The first step of the top-level task, up to `await asyncio.gather(...)`:
\* every coroutine becomes a task, scheduled with call_soon in argument order.
MainStart(p) ==
  /\ prog = p
  /\ running = Handle("step", MainTask)
  /\ mainState = "new"
  /\ tstate' = [t \in Tasks(prog) |-> "scheduled"]
  /\ ready' = ready \o GatherOrder(prog)
  /\ mainState' = "awaiting"
  /\ running' = NoHandle
  /\ UNCHANGED <<otherThanAsync, prog, fault, nested, now, busy, ntodo, scheduled, sleepFut,
                 mustCancel, timerCancelled, outer, nfinished, stopping, phase,
                 tdLeft, output>>

\* The top-level task wakes up with gather's outcome: a result lets it go on
\* to its next statement, an exception is raised out of the await. With
\* asyncio's own run_until_complete the task has _run_until_complete_cb for a
\* done callback, which is scheduled now; nest_asyncio's adds no callback.
MainResume(p, msgs) ==
  /\ prog = p
  /\ running = Handle("step", MainTask)
  /\ mainState = "awaiting"
  /\ IF outer = "result"
     THEN /\ output' = output \o msgs
          /\ mainState' = "done"
     ELSE /\ output' = output
          /\ mainState' = "failed"
  /\ ready' = IF nested THEN ready ELSE Append(ready, Handle("stop", MainTask))
  /\ running' = NoHandle
  /\ UNCHANGED <<otherThanAsync, prog, fault, nested, now, busy, ntodo, scheduled, tstate, sleepFut,
                 mustCancel, timerCancelled, outer, nfinished, stopping, phase,
                 tdLeft>>

RunTasksStart == MainStart("run_tasks")
RunTasksResume == MainResume("run_tasks", <<AllCompleted>>)
FetchMainStart == MainStart("fetch_data")
FetchMainResume == MainResume("fetch_data", <<>>)

(***************************************************************************)
(* The gathered coroutines: print, await asyncio.sleep(delay), print.      *)
(***************************************************************************)
\* A task ends (returned, raised or cancelled): its done callbacks are
\* scheduled with call_soon.
Finish(t, st) ==
  /\ tstate' = [tstate EXCEPT ![t] = st]
  /\ ready' = ready \o DoneCallbacks(t, phase)
  /\ running' = NoHandle

\* The deadline asyncio.sleep(delay) gives loop.call_later.
SleepDeadlineNoDelay(t) == now
SleepDeadline(t) == now + Delays(prog)[t] * TicksPerSecond

\* The first step of a task, up to its first print.
CoroStart(p, t) ==
  /\ prog = p
  /\ running = Handle("step", t)
  /\ tstate[t] = "scheduled"
  /\ IF mustCancel[t]
     THEN /\ Finish(t, "cancelled")
          /\ mustCancel' = [mustCancel EXCEPT ![t] = FALSE]
          /\ output' = output
     ELSE IF fault = [task |-> t, at |-> "start"]
     THEN /\ Finish(t, "failed")
          /\ UNCHANGED <<mustCancel, output>>
     ELSE /\ output' = Append(output, Msg("started", t))
          /\ tstate' = [tstate EXCEPT ![t] = "started"]
          /\ UNCHANGED <<ready, running, mustCancel>>
  /\ UNCHANGED <<otherThanAsync, prog, fault, nested, now, busy, ntodo, scheduled, sleepFut,
                 timerCancelled, mainState, outer, nfinished, stopping, phase,
                 tdLeft>>

\* await asyncio.sleep(delay): a future, a timer that will set its result,
\* and the task suspends, giving the loop back the control.
CoroSleep(p, t) ==
  /\ prog = p
  /\ running = Handle("step", t)
  /\ tstate[t] = "started"
  /\ scheduled' = HeapPush(scheduled, [when |-> SleepDeadline(t), task |-> t])
  /\ sleepFut' = [sleepFut EXCEPT ![t] = "pending"]
  /\ tstate' = [tstate EXCEPT ![t] = "sleeping"]
  /\ running' = NoHandle
  /\ UNCHANGED <<otherThanAsync, prog, fault, nested, now, busy, ready, ntodo, mustCancel,
                 timerCancelled, mainState, outer, nfinished, stopping, phase,
                 tdLeft, output>>

\* The sleep's timer runs: futures._set_result_unless_cancelled, and the
\* future's callback (the task's wakeup) is scheduled with call_soon.
TimerFire(t) ==
  /\ running = Handle("timer", t)
  /\ IF sleepFut[t] = "pending"
     THEN /\ sleepFut' = [sleepFut EXCEPT ![t] = "done"]
          /\ ready' = Append(ready, Handle("step", t))
     ELSE UNCHANGED <<sleepFut, ready>>
  /\ running' = NoHandle
  /\ UNCHANGED <<otherThanAsync, prog, fault, nested, now, busy, ntodo, scheduled, tstate, mustCancel,
                 timerCancelled, mainState, outer, nfinished, stopping, phase,
                 tdLeft, output>>

\* The task wakes up in its sleep, which it leaves through sleep's finally
\* (h.cancel()) in every case: cancelled, CancelledError ends the task;
\* otherwise the body goes on to its last print and returns.
CoroResume(p, t) ==
  /\ prog = p
  /\ running = Handle("step", t)
  /\ tstate[t] = "sleeping"
  /\ IF sleepFut[t] = "cancelled" \/ mustCancel[t]
     THEN /\ Finish(t, "cancelled")
          /\ mustCancel' = [mustCancel EXCEPT ![t] = FALSE]
          /\ output' = output
     ELSE IF fault = [task |-> t, at |-> "end"]
     THEN /\ Finish(t, "failed")
          /\ UNCHANGED <<mustCancel, output>>
     ELSE /\ Finish(t, "done")
          /\ output' = Append(output, Msg("ended", t))
          /\ UNCHANGED mustCancel
  /\ timerCancelled' = [timerCancelled EXCEPT ![t] = TRUE]
  /\ UNCHANGED <<otherThanAsync, prog, fault, nested, now, busy, ntodo, scheduled, sleepFut,
                 mainState, outer, nfinished, stopping, phase, tdLeft>>

TaskStarted == \E t \in Tasks("run_tasks") : CoroStart("run_tasks", t)
TaskSleep == \E t \in Tasks("run_tasks") : CoroSleep("run_tasks", t)
TaskEnded == \E t \in Tasks("run_tasks") : CoroResume("run_tasks", t)
FetchStarting == \E t \in Tasks("fetch_data") : CoroStart("fetch_data", t)
FetchSleep == \E t \in Tasks("fetch_data") : CoroSleep("fetch_data", t)
FetchFetched == \E t \in Tasks("fetch_data") : CoroResume("fetch_data", t)
SleepTimer == \E t \in Tasks(prog) : TimerFire(t)

(***************************************************************************)
(* asyncio.gather with its default arguments (return_exceptions=False).    *)
(***************************************************************************)
\* What gather's _done_callback makes of the outer future when child t is
\* done and the outer future is still pending, n children being done now.
OuterAfterJoinAny(t, n) == "result"
OuterAfter(t, n) ==
  IF tstate[t] \in {"failed", "cancelled"} THEN "exception"
  ELSE IF n = Len(Delays(prog)) THEN "result"
  ELSE "pending"

\* The children gather cancels when child t has raised: none.
GatherCancelsAllOthers(t) == Tasks(prog) \ {t}
GatherCancels(t) == {}

GatherDone ==
  \E t \in Tasks(prog) :
    /\ running = Handle("gcb", t)
    /\ nfinished' = nfinished + 1
    /\ IF outer = "pending"
       THEN /\ outer' = OuterAfter(t, nfinished + 1)
            /\ ready' = IF outer' # "pending"
                        THEN Append(ready, Handle("step", MainTask))
                        ELSE ready
            /\ mustCancel' = [u \in Tasks(prog) |->
                                mustCancel[u]
                                \/ (outer' = "exception" /\ u \in GatherCancels(t))]
       ELSE UNCHANGED <<outer, ready, mustCancel>>
    /\ running' = NoHandle
    /\ UNCHANGED <<otherThanAsync, prog, fault, nested, now, busy, ntodo, scheduled, tstate, sleepFut,
                   timerCancelled, mainState, stopping, phase, tdLeft, output>>

(***************************************************************************)
(* asyncio.run: run_until_complete, then Runner.close: _cancel_all_tasks,   *)
(* run_until_complete(shutdown_asyncgens()),                               *)
(* run_until_complete(shutdown_default_executor()), loop.close().          *)
(* nest_asyncio's run: run_until_complete, and nothing after it.           *)
(***************************************************************************)
\* nest_asyncio's run_until_complete leaves its loop of _run_once with the
\* top-level task done, at the end of the iteration in which it got done, and
\* run returns the task's result or raises its exception. The tasks that are
\* not done stay as they are on the loop, which is neither stopped nor closed.
RunReturns ==
  /\ nested
  /\ phase = "run"
  /\ MainFinished
  /\ running = NoHandle
  /\ ntodo = 0
  /\ phase' = "returned"
  /\ UNCHANGED <<otherThanAsync, prog, fault, nested, now, busy, ready, ntodo, scheduled,
                 running, tstate, sleepFut, mustCancel, timerCancelled,
                 mainState, outer, nfinished, stopping, tdLeft, output>>

\* _run_until_complete_cb: loop.stop()
StopLoop ==
  /\ running = Handle("stop", MainTask)
  /\ stopping' = TRUE
  /\ running' = NoHandle
  /\ UNCHANGED <<otherThanAsync, prog, fault, nested, now, busy, ready, ntodo, scheduled, tstate,
                 sleepFut, mustCancel, timerCancelled, mainState, outer,
                 nfinished, phase, tdLeft, output>>

Unfinished == {t \in Tasks(prog) : tstate[t] \notin {"done", "failed", "cancelled"}}

\* run_until_complete makes a task of one of the loop's two shutdown
\* coroutines: its first step is scheduled with call_soon.
ShutdownHandle == Handle("shutdown", MainTask)

\* run_forever has returned with the top-level task done. _cancel_all_tasks
\* cancels every task that is not done: a task waiting on a pending future
\* has the future cancelled (its wakeup is scheduled), any other is marked
\* _must_cancel; a gather with return_exceptions=True then waits for them.
\* With nothing to cancel it returns at once and Runner.close goes on to
\* run_until_complete(loop.shutdown_asyncgens()).
CancelAllTasks ==
  /\ phase = "run"
  /\ stopping
  /\ running = NoHandle
  /\ ntodo = 0
  /\ stopping' = FALSE
  /\ LET waiting == {t \in Unfinished : tstate[t] = "sleeping" /\ sleepFut[t] = "pending"}
     IN IF Unfinished = {}
        THEN /\ phase' = "asyncgens"
             /\ ready' = Append(ready, ShutdownHandle)
             /\ UNCHANGED <<sleepFut, mustCancel, tdLeft>>
        ELSE /\ phase' = "teardown"
             /\ tdLeft' = Cardinality(Unfinished)
             /\ sleepFut' = [t \in Tasks(prog) |->
                               IF t \in waiting THEN "cancelled" ELSE sleepFut[t]]
             /\ mustCancel' = [t \in Tasks(prog) |->
                                 mustCancel[t] \/ t \in Unfinished \ waiting]
             /\ \E order \in Orders(waiting) :
                  ready' = ready \o [i \in DOMAIN order |-> Handle("step", order[i])]
  /\ UNCHANGED <<otherThanAsync, prog, fault, nested, now, busy, ntodo, scheduled, running, tstate,
                 timerCancelled, mainState, outer, nfinished, output>>

\* The teardown gather's _done_callback: with the last task it waits for, its
\* outer future is done and run_until_complete stops the loop.
TeardownDone ==
  \E t \in Tasks(prog) :
    /\ running = Handle("tcb", t)
    /\ tdLeft' = tdLeft - 1
    /\ ready' = IF tdLeft' = 0 THEN Append(ready, Handle("stop", MainTask)) ELSE ready
    /\ running' = NoHandle
    /\ UNCHANGED <<otherThanAsync, prog, fault, nested, now, busy, ntodo, scheduled, tstate, sleepFut,
                   mustCancel, timerCancelled, mainState, outer, nfinished,
                   stopping, phase, output>>

\* The run of the loop for _cancel_all_tasks' gather, or for
\* shutdown_asyncgens, has stopped: Runner.close goes on to the next of
\* run_until_complete(loop.shutdown_asyncgens()) and
\* run_until_complete(loop.shutdown_default_executor()).
ShutdownStart ==
  /\ phase \in {"teardown", "asyncgens"}
  /\ stopping
  /\ running = NoHandle
  /\ ntodo = 0
  /\ phase' = IF phase = "teardown" THEN "asyncgens" ELSE "executor"
  /\ ready' = Append(ready, ShutdownHandle)
  /\ stopping' = FALSE
  /\ UNCHANGED <<otherThanAsync, prog, fault, nested, now, busy, ntodo, scheduled, running,
                 tstate, sleepFut, mustCancel, timerCancelled, mainState,
                 outer, nfinished, tdLeft, output>>

\* The step of the shutdown task: the notebook has made no asynchronous
\* generator and no executor, so that the coroutine returns at once, and the
\* task's done callback, _run_until_complete_cb, is scheduled.
ShutdownStep ==
  /\ running = ShutdownHandle
  /\ ready' = Append(ready, Handle("stop", MainTask))
  /\ running' = NoHandle
  /\ UNCHANGED <<otherThanAsync, prog, fault, nested, now, busy, ntodo, scheduled, tstate,
                 sleepFut, mustCancel, timerCancelled, mainState, outer,
                 nfinished, stopping, phase, tdLeft, output>>

\* loop.close(), after the run for shutdown_default_executor has stopped:
\* _ready and _scheduled are cleared.
CloseLoop ==
  /\ phase = "executor"
  /\ stopping
  /\ running = NoHandle
  /\ ntodo = 0
  /\ phase' = "closed"
  /\ stopping' = FALSE
  /\ ready' = <<>>
  /\ scheduled' = <<>>
  /\ UNCHANGED <<otherThanAsync, prog, fault, nested, now, busy, ntodo, running,
                 tstate, sleepFut, mustCancel, timerCancelled, mainState,
                 outer, nfinished, tdLeft, output>>

NextAsync ==
  \/ RunOnce
  \/ Dispatch
  \/ Tick
  \/ RunTasksStart
  \/ TaskStarted
  \/ TaskSleep
  \/ SleepTimer
  \/ TaskEnded
  \/ GatherDone
  \/ RunTasksResume
  \/ FetchMainStart
  \/ FetchStarting
  \/ FetchSleep
  \/ FetchFetched
  \/ FetchMainResume
  \/ RunReturns
  \/ StopLoop
  \/ CancelAllTasks
  \/ TeardownDone
  \/ ShutdownStart
  \/ ShutdownStep
  \/ CloseLoop

SpecAsync == InitAsync /\ [][NextAsync]_vars

\* The loop keeps running while it has something to run.
FairSpecAsync == SpecAsync /\ WF_vars(NextAsync)

(***************************************************************************)
(* What the output shows.                                                  *)
(***************************************************************************)
TasksOf(kind) ==
  LET e == SelectSeq(output, LAMBDA m : m.kind = kind)
  IN [i \in DOMAIN e |-> e[i].task]

StartedTasks == TasksOf("started")
EndedTasks == TasksOf("ended")
Count(m) == Cardinality({i \in DOMAIN output : output[i] = m})

(***************************************************************************)
(* C1: in run_tasks the tasks end in increasing order of their delay:      *)
(* "Task 3 Ended" comes before "Task 1 Ended", which comes before          *)
(* "Task 2 Ended"; when no task body raises, run_tasks is done only with   *)
(* the three of them printed in that order. (Callbacks take less than a    *)
(* second in total: MaxBusyTicks < TicksPerSecond.)                        *)
(***************************************************************************)
C1_EndedInDelayOrder ==
  prog = "run_tasks" =>
    /\ \A i, j \in DOMAIN EndedTasks :
         i < j => Delays(prog)[EndedTasks[i]] < Delays(prog)[EndedTasks[j]]
    /\ (fault = NoFault /\ mainState = "done") => EndedTasks = <<3, 1, 2>>

C1_Witness ==
  /\ prog = "run_tasks"
  /\ Len(EndedTasks) = 3
  /\ busy = MaxBusyTicks

(***************************************************************************)
(* C2: in run_tasks "All tasks completed." is printed only after the three *)
(* "Ended" messages, never twice, and, when no task body raises, it is     *)
(* eventually printed (and stays printed exactly once).                    *)
(***************************************************************************)
JoinedBeforeAllCompleted ==
  /\ Count(AllCompleted) <= 1
  /\ \A i \in DOMAIN output :
       output[i] = AllCompleted =>
         \A t \in Tasks(prog) : \E j \in 1..(i - 1) : output[j] = Msg("ended", t)

C2_AllCompletedAfterJoin ==
  /\ [](prog = "run_tasks" => JoinedBeforeAllCompleted)
  /\ (prog = "run_tasks" /\ fault = NoFault) => <>[](Count(AllCompleted) = 1)

C2_Witness ==
  /\ prog = "run_tasks"
  /\ fault = NoFault
  /\ output # <<>>
  /\ output[Len(output)] = AllCompleted
  /\ nested
  /\ phase = "returned"

(***************************************************************************)
(* C3: in run_tasks no "started.." message follows an "Ended" message, the *)
(* start messages come in the order of gather's arguments (1, 2, 3), all   *)
(* of them are there once a task has ended, and between a task's start     *)
(* message and its suspension in sleep the loop runs that task's step and  *)
(* nothing else.                                                           *)
(***************************************************************************)
C3_StartsFirstInGatherOrder ==
  prog = "run_tasks" =>
    /\ \A i, j \in DOMAIN output :
         output[i].kind = "started" /\ output[j].kind = "ended" => i < j
    /\ \A i, j \in DOMAIN StartedTasks : i < j => StartedTasks[i] < StartedTasks[j]
    /\ EndedTasks # <<>> => StartedTasks = <<1, 2, 3>>
    /\ \A t \in Tasks(prog) : tstate[t] = "started" => running = Handle("step", t)

C3_Witness ==
  /\ prog = "run_tasks"
  /\ StartedTasks = <<1, 2, 3>>
  /\ EndedTasks = <<3>>
  /\ busy > 0

(***************************************************************************)
(* C4: in the fetch_data program every URL's "Starting to fetch" message   *)
(* comes before any "Data fetched" message, each URL has at most one of    *)
(* each (exactly one of each when main is done), the fetched messages come *)
(* in the order of the start messages, which is the order of urls, and     *)
(* main is past its await of gather only when every task is done.          *)
(***************************************************************************)
C4_FetchOrderAndJoin ==
  prog = "fetch_data" =>
    /\ \A i, j \in DOMAIN output :
         output[i].kind = "started" /\ output[j].kind = "ended" => i < j
    /\ EndedTasks # <<>> => StartedTasks = [i \in 1..Len(urls) |-> i]
    /\ \A t \in Tasks(prog) :
         Count(Msg("started", t)) <= 1 /\ Count(Msg("ended", t)) <= 1
    /\ \A i, j \in DOMAIN StartedTasks : i < j => StartedTasks[i] < StartedTasks[j]
    /\ \A i, j \in DOMAIN EndedTasks : i < j => EndedTasks[i] < EndedTasks[j]
    /\ mainState = "done" =>
         /\ \A t \in Tasks(prog) : tstate[t] = "done"
         /\ EndedTasks = [i \in 1..Len(urls) |-> i]
    /\ (fault = NoFault /\ mainState # "awaiting" /\ mainState # "new") =>
         mainState = "done"

C4_Witness ==
  /\ prog = "fetch_data"
  /\ mainState = "done"
  /\ Len(EndedTasks) = Len(urls)
  /\ busy > 0

(***************************************************************************)
(* C5: in run_tasks, once a gathered task has raised and gather has taken  *)
(* note of it, every other gathered task is cancelled or has been asked to *)
(* cancel.                                                                 *)
(***************************************************************************)
C5_GatherCancelsOthers ==
  prog = "run_tasks" =>
    \A t \in Tasks(prog) :
      (tstate[t] = "failed" /\ outer = "exception") =>
        \A u \in Tasks(prog) \ {t} :
          tstate[u] = "cancelled" \/ mustCancel[u] \/ sleepFut[u] = "cancelled"

(***************************************************************************)
(* Design Patterns and SOLID Principles.ipynb: the singleton Logger.       *)
(***************************************************************************)
\* if cls not in cls._instances
NeedsInstanceAlways(cls) == TRUE
NeedsInstance(cls) == cls \notin DOMAIN instances

\* Logger(): SingletonMeta.__call__(Logger)
LoggerCall ==
  /\ Len(refs) < MaxLoggerCalls
  /\ LET cls == "Logger"
     IN /\ IF NeedsInstance(cls)
           THEN /\ nobjects' = nobjects + 1
                /\ instances' = [c \in DOMAIN instances \cup {cls} |->
                                   IF c = cls THEN nobjects + 1 ELSE instances[c]]
           ELSE UNCHANGED <<nobjects, instances>>
        /\ refs' = Append(refs, instances'[cls])
  /\ UNCHANGED <<otherThanPatterns, observers, attachNo, nattach, delivered,
                 lastOp, lastMessage, observersBefore>>

(***************************************************************************)
(* Design Patterns and SOLID Principles.ipynb: Subject and its observers.  *)
(***************************************************************************)
\* The observers the notebook makes.
\* The observers that can be attached: an instance of the base class
\* Observer, observer_a = ConcreteObserverA(), observer_b = ConcreteObserverB().
Observers == {"Observer", "ConcreteObserverA", "ConcreteObserverB"}
Messages == {"Hello, Observers!", "Goodbye, Observers!"}

\* list.append
ListPrepend(list, x) == <<x>> \o list
ListAppend(list, x) == Append(list, x)

\* list.remove takes out the first entry equal to x: its index.
FirstIndex(list, x) ==
  CHOOSE i \in DOMAIN list :
    list[i] = x /\ \A j \in DOMAIN list : list[j] = x => i <= j

RemoveAt(list, i) == SubSeq(list, 1, i - 1) \o SubSeq(list, i + 1, Len(list))

\* Observer.update: raise NotImplementedError; the concrete observers
\* override it.
UpdateRaises(observer) == observer = "Observer"

\* One call observer.update(message): ConcreteObserverA.update and
\* ConcreteObserverB.update print one line, Observer.update raises.
Update(observer, attach, message) ==
  [observer |-> observer, attach |-> attach, message |-> message,
   raised |-> UpdateRaises(observer)]

\* for observer in self._observers: observer.update(message)
\* The calls made, in order: an exception raised by update is not handled
\* and ends the loop.
RECURSIVE NotifyFromReversed(_, _, _, _)
NotifyFromReversed(obs, att, i, message) ==
  IF i <= Len(obs)
  THEN LET rest == NotifyFromReversed(obs, att, i + 1, message)
       IN IF rest # <<>> /\ rest[Len(rest)].raised
          THEN rest
          ELSE rest \o <<Update(obs[i], att[i], message)>>
  ELSE <<>>

RECURSIVE NotifyFrom(_, _, _, _)
NotifyFrom(obs, att, i, message) ==
  IF i <= Len(obs)
  THEN LET call == Update(obs[i], att[i], message)
       IN IF call.raised
          THEN <<call>>
          ELSE <<call>> \o NotifyFrom(obs, att, i + 1, message)
  ELSE <<>>

Attach ==
  \E o \in Observers :
    /\ Len(observers) < MaxObservers
    /\ nattach < MaxAttach
    /\ observers' = ListAppend(observers, o)
    /\ attachNo' = ListAppend(attachNo, nattach + 1)
    /\ nattach' = nattach + 1
    /\ lastOp' = "attach"
    /\ observersBefore' = observers
    /\ UNCHANGED <<otherThanPatterns, instances, nobjects, refs, delivered,
                   lastMessage>>

\* list.remove raises ValueError when the observer is not attached.
Detach ==
  \E o \in Observers :
    /\ IF \E i \in DOMAIN observers : observers[i] = o
       THEN /\ observers' = RemoveAt(observers, FirstIndex(observers, o))
            /\ attachNo' = RemoveAt(attachNo, FirstIndex(observers, o))
            /\ lastOp' = "detach"
       ELSE /\ UNCHANGED <<observers, attachNo>>
            /\ lastOp' = "detach raised ValueError"
    /\ observersBefore' = observers
    /\ UNCHANGED <<otherThanPatterns, instances, nobjects, refs, nattach,
                   delivered, lastMessage>>

Notify ==
  \E message \in Messages :
    /\ delivered' = NotifyFrom(observers, attachNo, 1, message)
    /\ lastMessage' = message
    /\ lastOp' = IF delivered' # <<>> /\ delivered'[Len(delivered')].raised
                 THEN "notify raised NotImplementedError"
                 ELSE "notify"
    /\ observersBefore' = observers
    /\ UNCHANGED <<otherThanPatterns, instances, nobjects, refs, observers,
                   attachNo, nattach>>

InitDesignPatterns ==
  /\ InitPatterns
  /\ AsyncIdle
  /\ MemoIdle
  /\ CacheIdle
  /\ LaterNotebooksIdle

NextPatterns ==
  \/ LoggerCall
  \/ Attach
  \/ Detach
  \/ Notify

SpecPatterns == InitDesignPatterns /\ [][NextPatterns]_vars

(***************************************************************************)
(* C6: every call Logger() returns the same object; at most one instance   *)
(* is ever made, the first call makes it and no later call makes another.  *)
(***************************************************************************)
C6_OneLogger ==
  /\ \A i, j \in DOMAIN refs : refs[i] = refs[j]
  /\ nobjects = IF refs = <<>> THEN 0 ELSE 1
  /\ \A i \in DOMAIN refs : refs[i] = instances["Logger"]

C6_Witness ==
  /\ Len(refs) = MaxLoggerCalls
  /\ nobjects = 1

\* notify has been called, and it is the latest operation on the subject.
NotifyCalled == lastOp \in {"notify", "notify raised NotImplementedError"}

\* The entries of the observer list notify calls update on: all of them, or
\* those up to the first instance of the base class Observer.
CalledEntries ==
  IF \E i \in DOMAIN observers : observers[i] = "Observer"
  THEN CHOOSE i \in DOMAIN observers :
         /\ observers[i] = "Observer"
         /\ \A j \in 1..(i - 1) : observers[j] # "Observer"
  ELSE Len(observers)

(***************************************************************************)
(* C10, as stated: notify(message) calls update(message) once for each     *)
(* entry of the observer list, in list order, which is the order of the    *)
(* attach calls that made the entries, and leaves the list as it found it. *)
(* It fails with an instance of the base class Observer attached ahead of  *)
(* another observer.                                                       *)
(***************************************************************************)
C10_NotifyEveryObserverInOrder ==
  NotifyCalled =>
    /\ observers = observersBefore
    /\ Len(delivered) = Len(observers)
    /\ \A i \in DOMAIN delivered :
         /\ delivered[i].observer = observers[i]
         /\ delivered[i].attach = attachNo[i]
         /\ delivered[i].message = lastMessage
    /\ \A i, j \in DOMAIN delivered : i < j => delivered[i].attach < delivered[j].attach

(***************************************************************************)
(* C10, amended: notify(message) calls update(message) once for each entry *)
(* of the observer list, in list order, which is the order of the attach   *)
(* calls that made the entries, up to and including the first entry whose  *)
(* update raises (an instance of the base class Observer); the entries     *)
(* after it get no call and notify raises NotImplementedError. With no     *)
(* such entry every entry gets its call and notify returns. In both cases  *)
(* the list is left as notify found it.                                    *)
(***************************************************************************)
C10_NotifyUpToFirstRaising ==
  NotifyCalled =>
    /\ observers = observersBefore
    /\ Len(delivered) = CalledEntries
    /\ \A i \in DOMAIN delivered :
         /\ delivered[i].observer = observers[i]
         /\ delivered[i].attach = attachNo[i]
         /\ delivered[i].message = lastMessage
         /\ delivered[i].raised = (observers[i] = "Observer")
    /\ \A i, j \in DOMAIN delivered : i < j => delivered[i].attach < delivered[j].attach
    /\ (lastOp = "notify") = (\A i \in DOMAIN observers : observers[i] # "Observer")

C10_Witness ==
  /\ lastOp = "notify raised NotImplementedError"
  /\ observers = <<"ConcreteObserverA", "Observer", "ConcreteObserverB">>
  /\ Len(delivered) = 2
  /\ nattach > Len(observers)

(***************************************************************************)
(* Decorators_Python_Tutorial.ipynb: memoize and the memoized fibonacci.   *)
(* A call of fibonacci is a call of memoize's wrapper; the calls in        *)
(* progress are a stack of frames [n, pc, r1]: pc is "wrapper" when the    *)
(* wrapper has not looked into the cache yet, "first" and "second" when    *)
(* the body waits for fibonacci(n-1) and fibonacci(n-2).                   *)
(***************************************************************************)
Frame(n, pc, r1) == [n |-> n, pc |-> pc, r1 |-> r1]

Top == fibStack[Len(fibStack)]
Pop == SubSeq(fibStack, 1, Len(fibStack) - 1)
ReplaceTop(f) == [fibStack EXCEPT ![Len(fibStack)] = f]

\* if args in cache
CacheHitNever(cache, n) == FALSE
CacheHit(cache, n) == n \in DOMAIN cache

\* cache[args] = result
CacheStoreNext(cache, n, result) ==
  [k \in DOMAIN cache \cup {n + 1} |-> IF k = n + 1 THEN result ELSE cache[k]]
CacheStore(cache, n, result) ==
  [k \in DOMAIN cache \cup {n} |-> IF k = n THEN result ELSE cache[k]]

\* print(fibonacci(n)): a call from the top level.
FibCall ==
  \E n \in FibArgs :
    /\ fibStack = <<>>
    /\ fibStack' = <<Frame(n, "wrapper", None)>>
    /\ fibArg' = n
    /\ fibRet' = None
    /\ UNCHANGED <<otherThanMemo, fibCache, fibExec>>

\* wrapper(*args): a hit returns cache[args]; a miss runs the body, which
\* returns n at once when n < 2 and calls fibonacci(n-1) otherwise.
FibWrapper ==
  /\ fibStack # <<>>
  /\ Top.pc = "wrapper"
  /\ LET n == Top.n
     IN IF CacheHit(fibCache, n)
        THEN /\ fibRet' = fibCache[n]
             /\ fibStack' = Pop
             /\ UNCHANGED <<fibCache, fibExec>>
        ELSE /\ fibExec' = [fibExec EXCEPT ![n] = @ + 1]
             /\ IF n < 2
                THEN /\ fibCache' = CacheStore(fibCache, n, n)
                     /\ fibRet' = n
                     /\ fibStack' = Pop
                ELSE /\ fibStack' = Append(ReplaceTop(Frame(n, "first", None)),
                                           Frame(n - 1, "wrapper", None))
                     /\ UNCHANGED <<fibCache, fibRet>>
  /\ UNCHANGED <<otherThanMemo, fibArg>>

\* A call made by the body has returned: after fibonacci(n-1) the body
\* calls fibonacci(n-2); after that it returns the sum, which the wrapper
\* stores and returns.
FibBody ==
  /\ fibStack # <<>>
  /\ Top.pc \in {"first", "second"}
  /\ fibRet # None
  /\ LET n == Top.n
     IN IF Top.pc = "first"
        THEN /\ fibStack' = Append(ReplaceTop(Frame(n, "second", fibRet)),
                                   Frame(n - 2, "wrapper", None))
             /\ fibRet' = None
             /\ UNCHANGED fibCache
        ELSE /\ fibCache' = CacheStore(fibCache, n, Top.r1 + fibRet)
             /\ fibRet' = Top.r1 + fibRet
             /\ fibStack' = Pop
  /\ UNCHANGED <<otherThanMemo, fibArg, fibExec>>

InitDecorators ==
  /\ InitMemo
  /\ AsyncIdle
  /\ PatternsIdle
  /\ CacheIdle
  /\ LaterNotebooksIdle

NextMemo ==
  \/ FibCall
  \/ FibWrapper
  \/ FibBody

SpecMemo == InitDecorators /\ [][NextMemo]_vars

\* The plain recursive definition.
RECURSIVE Fib(_)
Fib(n) == IF n < 2 THEN n ELSE Fib(n - 1) + Fib(n - 2)

(***************************************************************************)
(* C7: fibonacci's body runs at most once for an argument, whatever calls  *)
(* are made (those of the body itself go through the wrapper), and an      *)
(* entry of the cache, once written, is neither changed nor removed.       *)
(***************************************************************************)
C7_BodyOncePerArgument ==
  /\ [](\A n \in FibArgs : fibExec[n] <= 1)
  /\ [][\A k \in DOMAIN fibCache :
          k \in DOMAIN fibCache' /\ fibCache'[k] = fibCache[k]]_vars

C7_Witness ==
  /\ fibStack = <<>>
  /\ fibRet # None
  /\ DOMAIN fibCache = FibArgs
  /\ \A n \in FibArgs : fibExec[n] = 1
  /\ fibArg < MaxFibArg

(***************************************************************************)
(* C8: a call fibonacci(n), whatever was called before it, returns what    *)
(* the plain recursive definition gives for n; fibonacci(10) returns 55.   *)
(***************************************************************************)
C8_MemoizedEqualsPlain ==
  /\ (fibStack = <<>> /\ fibRet # None) =>
       /\ fibRet = Fib(fibArg)
       /\ fibArg = 10 => fibRet = 55
  /\ \A k \in DOMAIN fibCache : fibCache[k] = Fib(k)

C8_Witness ==
  /\ fibStack = <<>>
  /\ fibArg = 10
  /\ fibRet = 55

(***************************************************************************)
(* Decorators_Python_Tutorial.ipynb: cache_results and compute_expensive.  *)
(***************************************************************************)
\* if args in cache
ResultCachedNever(cache, x) == FALSE
ResultCached(cache, x) == x \in DOMAIN cache

\* compute_expensive's body (after its sleep): return x * x
ComputeExpensive(x) == x * x

\* print(compute_expensive(x)): one call of the wrapper.
CallComputeExpensive ==
  \E x \in ComputeArgs :
    /\ crCalls[x] < MaxCallsPerArg
    /\ crCalls' = [crCalls EXCEPT ![x] = @ + 1]
    /\ IF ResultCached(crCache, x)
       THEN /\ crLast' = [arg |-> x, printed |-> TRUE, value |-> crCache[x]]
            /\ UNCHANGED <<crCache, crExec>>
       ELSE /\ crExec' = [crExec EXCEPT ![x] = @ + 1]
            /\ crCache' = [k \in DOMAIN crCache \cup {x} |->
                             IF k = x THEN ComputeExpensive(x) ELSE crCache[k]]
            /\ crLast' = [arg |-> x, printed |-> FALSE, value |-> ComputeExpensive(x)]
    /\ crFirst' = IF crCalls[x] = 0
                  THEN [crFirst EXCEPT ![x] = crLast'.value]
                  ELSE crFirst
    /\ UNCHANGED otherThanCache

InitCaching ==
  /\ InitCache
  /\ AsyncIdle
  /\ PatternsIdle
  /\ MemoIdle
  /\ LaterNotebooksIdle

NextCache == CallComputeExpensive

SpecCache == InitCaching /\ [][NextCache]_vars

(***************************************************************************)
(* C9: the first call of the wrapped function with an argument runs the    *)
(* body and prints nothing; a later call with that argument prints         *)
(* "Returning cached result", does not run the body again and returns what *)
(* the first call returned.                                                *)
(***************************************************************************)
C9_CachedAfterFirstCall ==
  LET x == crLast.arg
  IN /\ crCalls[x] = 1 => (~crLast.printed /\ crExec[x] = 1)
     /\ crCalls[x] > 1 =>
          (crLast.printed /\ crExec[x] = 1 /\ crLast.value = crFirst[x])
     /\ \A y \in ComputeArgs : crExec[y] = IF crCalls[y] = 0 THEN 0 ELSE 1

C9_Witness ==
  /\ crCalls[crLast.arg] = MaxCallsPerArg
  /\ crLast.printed
  /\ crLast.value = 1
  /\ \E y \in ComputeArgs : y # crLast.arg /\ crCalls[y] = 1

(***************************************************************************)
(* Iterators_and_Generators.ipynb: Countdown, countdown_generator and      *)
(* fibonacci_generator.  Each action is one call of next() on one of them. *)
(***************************************************************************)
\* Countdown.__next__: if self.current > 0
CountdownHasNextInclusive(current) == current >= 0
CountdownHasNext(current) == current > 0

\* next(countdown): Countdown.__next__
CountdownNext ==
  /\ cdStops < MaxStops
  /\ IF CountdownHasNext(cdCurrent)
     THEN /\ cdCurrent' = cdCurrent - 1
          /\ cdOut' = Append(cdOut, cdCurrent' + 1)
          /\ UNCHANGED cdStops
     ELSE /\ cdStops' = cdStops + 1
          /\ UNCHANGED <<cdCurrent, cdOut>>
  /\ UNCHANGED <<cdStart, genState, genCurrent, genOut, genStops,
                 fgState, fgA, fgB, fgOut, otherThanIterators>>

\* countdown_generator: while current > 0
GenContinuesInclusive(current) == current >= 0
GenContinues(current) == current > 0

\* next() on countdown_generator(start): the body runs from where it is (its
\* beginning, or the yield it is suspended at) to the next yield or to its
\* end; a generator that has ended raises StopIteration and nothing else.
GeneratorNext ==
  /\ genStops < MaxStops
  /\ IF genState = "done"
     THEN /\ genStops' = genStops + 1
          /\ UNCHANGED <<genState, genCurrent, genOut>>
     ELSE LET current == IF genState = "created"
                         THEN cdStart
                         ELSE genCurrent - 1
          IN /\ genCurrent' = current
             /\ IF GenContinues(current)
                THEN /\ genState' = "suspended"
                     /\ genOut' = Append(genOut, current)
                     /\ UNCHANGED genStops
                ELSE /\ genState' = "done"
                     /\ genStops' = genStops + 1
                     /\ UNCHANGED genOut
  /\ UNCHANGED <<cdStart, cdCurrent, cdOut, cdStops,
                 fgState, fgA, fgB, fgOut, otherThanIterators>>

\* fibonacci_generator: a, b = b, a + b
FibStepInTurn(a, b) == <<b, b + b>>
FibStep(a, b) == <<b, a + b>>

\* next(fib_gen): the body runs from its beginning (a, b = 0, 1) or from the
\* yield it is suspended at to the yield of the next turn of while True.
FibonacciNext ==
  /\ Len(fgOut) < MaxFibYields
  /\ LET ab == IF fgState = "created" THEN <<0, 1>> ELSE FibStep(fgA, fgB)
     IN /\ fgA' = ab[1]
        /\ fgB' = ab[2]
        /\ fgOut' = Append(fgOut, ab[1])
  /\ fgState' = "suspended"
  /\ UNCHANGED <<cdStart, cdCurrent, cdOut, cdStops,
                 genState, genCurrent, genOut, genStops, otherThanIterators>>

InitIterators ==
  /\ InitGenerators(Starts)
  /\ AsyncIdle
  /\ PatternsIdle
  /\ MemoIdle
  /\ CacheIdle
  /\ ValidateIdle
  /\ AccumulatorIdle
  /\ TemperatureIdle

NextIterators ==
  \/ CountdownNext
  \/ GeneratorNext
  \/ FibonacciNext

SpecIterators == InitIterators /\ [][NextIterators]_vars

\* start, start - 1, ...: n values.
Descending(start, n) == [i \in 1..n |-> start - i + 1]

IsPrefix(s, t) == Len(s) <= Len(t) /\ \A i \in 1..Len(s) : s[i] = t[i]

(***************************************************************************)
(* C11: for a start of at least 1, what next(countdown) has returned so    *)
(* far is start, start - 1, ... in that order and never goes below 1, and  *)
(* StopIteration is raised only when all of start, ..., 1 have been        *)
(* returned; Countdown(5) gives 5, 4, 3, 2, 1.                             *)
(***************************************************************************)
C11_CountdownYieldsStartToOne ==
  cdStart >= 1 =>
    /\ Len(cdOut) <= cdStart
    /\ cdOut = Descending(cdStart, Len(cdOut))
    /\ cdStops > 0 => cdOut = Descending(cdStart, cdStart)
    /\ (cdStart = 5 /\ cdStops > 0) => cdOut = <<5, 4, 3, 2, 1>>

C11_Witness ==
  /\ cdStart = 5
  /\ cdOut = <<5, 4, 3, 2, 1>>
  /\ cdStops = 1

(***************************************************************************)
(* C12: for every integer start, positive or not, the values               *)
(* countdown_generator(start) and Countdown(start) have returned agree     *)
(* call by call, and neither returns a value at a call at which the other  *)
(* raises StopIteration: both are exhausted at the same call.              *)
(***************************************************************************)
C12_GeneratorEqualsIterator ==
  /\ IsPrefix(cdOut, genOut) \/ IsPrefix(genOut, cdOut)
  /\ cdStops > 0 => Len(genOut) <= Len(cdOut)
  /\ genStops > 0 => Len(cdOut) <= Len(genOut)
  /\ cdStart <= 0 => (cdOut = <<>> /\ genOut = <<>>)

C12_Witness ==
  /\ cdStart = 3
  /\ cdStops = 1
  /\ genStops = 1
  /\ genOut = <<3, 2, 1>>
  /\ cdOut = genOut

(***************************************************************************)
(* C13: the k-th value fibonacci_generator yields, counted from 0, is the  *)
(* k-th Fibonacci number; the first ten are 0, 1, 1, 2, 3, 5, 8, 13, 21,   *)
(* 34; and every call of next() on it returns one more value: the          *)
(* generator never ends.                                                   *)
(***************************************************************************)
C13_FibonacciGeneratorYieldsFibonacci ==
  /\ [](/\ \A k \in 0..(Len(fgOut) - 1) : fgOut[k + 1] = Fib(k)
        /\ Len(fgOut) >= 10 =>
             SubSeq(fgOut, 1, 10) = <<0, 1, 1, 2, 3, 5, 8, 13, 21, 34>>
        /\ fgState # "done")
  /\ [][<<fgState, fgA, fgB, fgOut>>' # <<fgState, fgA, fgB, fgOut>> =>
          /\ Len(fgOut') = Len(fgOut) + 1
          /\ fgState' = "suspended"]_vars

C13_Witness ==
  /\ Len(fgOut) = 10
  /\ fgOut[10] = 34
  /\ fgState = "suspended"

(***************************************************************************)
(* Iterators_and_Generators.ipynb: accumulator.                            *)
(***************************************************************************)
\* The values the notebook sends; None can be sent as well.
SendValues == {10, 20, 30}

\* accumulator: if value is not None: total += value
AccAddReplacing(total, value) == IF value # None THEN value ELSE total
AccAdd(total, value) == IF value # None THEN total + value ELSE total

\* next(acc) (or acc.send(None)) on the generator just made: the body runs
\* from its beginning to the first yield, which gives total = 0 to the caller.
AccPrime ==
  /\ accState = "created"
  /\ accState' = "suspended"
  /\ accTotal' = 0
  /\ accError' = FALSE
  /\ UNCHANGED <<accSent, accRets, otherThanAccumulator>>

\* acc.send(v) on the generator just made, v not None: Python raises
\* TypeError and the body does not begin.
AccSendUnprimed ==
  /\ accState = "created"
  /\ \E v \in SendValues : accError' = TRUE
  /\ UNCHANGED <<accState, accTotal, accSent, accRets, otherThanAccumulator>>

\* acc.send(v) (next(acc) is send(None)) on the suspended generator: the yield
\* gives v to value, the body runs to the yield of the next turn, which gives
\* total to the caller.
AccSend ==
  \E v \in SendValues \cup {None} :
    /\ accState = "suspended"
    /\ Len(accSent) < MaxSends
    /\ accTotal' = AccAdd(accTotal, v)
    /\ accSent' = Append(accSent, v)
    /\ accRets' = Append(accRets, accTotal')
    /\ accError' = FALSE
    /\ UNCHANGED <<accState, otherThanAccumulator>>

InitAccumulator ==
  /\ InitAcc
  /\ AsyncIdle
  /\ PatternsIdle
  /\ MemoIdle
  /\ CacheIdle
  /\ ValidateIdle
  /\ IteratorsIdle
  /\ TemperatureIdle

NextAccumulator ==
  \/ AccPrime
  \/ AccSendUnprimed
  \/ AccSend

SpecAccumulator == InitAccumulator /\ [][NextAccumulator]_vars

\* The sum of the values of s that are not None.
RECURSIVE SumSent(_)
SumSent(s) ==
  IF s = <<>>
  THEN 0
  ELSE SumSent(SubSeq(s, 1, Len(s) - 1))
         + (IF s[Len(s)] = None THEN 0 ELSE s[Len(s)])

(***************************************************************************)
(* C14: once the accumulator is primed, the i-th send returns the sum of   *)
(* the first i values sent (None counting for nothing, so that sending     *)
(* None returns the total as it was); sending 10, 20, 30 returns 10, 30,   *)
(* 60.                                                                     *)
(***************************************************************************)
C14_SendReturnsRunningTotal ==
  /\ Len(accRets) = Len(accSent)
  /\ accState = "created" => accSent = <<>>
  /\ \A i \in 1..Len(accSent) :
       /\ accRets[i] = SumSent(SubSeq(accSent, 1, i))
       /\ accSent[i] = None =>
            accRets[i] = (IF i = 1 THEN 0 ELSE accRets[i - 1])
  /\ accState = "suspended" => accTotal = SumSent(accSent)
  /\ IsPrefix(<<10, 20, 30>>, accSent) => IsPrefix(<<10, 30, 60>>, accRets)

C14_Witness ==
  /\ accSent = <<10, 20, 30, None>>
  /\ accRets = <<10, 30, 60, 60>>

(***************************************************************************)
(* Decorators_Python_Tutorial.ipynb: validate_input and multiply.          *)
(***************************************************************************)
\* What multiply is called with: integers, True and False, 2.0 and 2.5, "3"
\* and None.
ArgValues ==
  {Value("int", n) : n \in (0 - MaxIntArg)..MaxIntArg}
    \cup {Value("bool", 0), Value("bool", 1), Value("float", 20),
          Value("float", 25), Value("str", 3), Value("NoneType", 0)}

\* isinstance(v, int): bool is a subclass of int.
IsInstanceInt(v) == v.type \in {"int", "bool"}

\* wrapper: if not isinstance(x, int) or not isinstance(y, int)
InvalidInputBoth(x, y) == ~IsInstanceInt(x) /\ ~IsInstanceInt(y)
InvalidInput(x, y) == ~IsInstanceInt(x) \/ ~IsInstanceInt(y)

\* multiply's body, return x * y, for instances of int: the product, an int.
Multiply(x, y) == Value("int", x.val * y.val)

ValueErrorIntegers == "ValueError: Both x and y need to be integers"

\* multiply(x, y): one call of the wrapper validate_input returned.
CallMultiply ==
  \E x \in ArgValues, y \in ArgValues :
    /\ viX' = x
    /\ viY' = y
    /\ viCallsBefore' = viCalls
    /\ IF InvalidInput(x, y)
       THEN /\ viOutcome' = [kind |-> "raise", error |-> ValueErrorIntegers,
                             value |-> Value("NoneType", 0)]
            /\ UNCHANGED viCalls
       ELSE /\ viCalls < MaxMultiplyCalls
            /\ viCalls' = viCalls + 1
            /\ viOutcome' = [kind |-> "return", error |-> "",
                             value |-> Multiply(x, y)]
    /\ UNCHANGED otherThanValidate

InitValidation ==
  /\ InitValidate
  /\ AsyncIdle
  /\ PatternsIdle
  /\ MemoIdle
  /\ CacheIdle
  /\ IteratorsIdle
  /\ AccumulatorIdle
  /\ TemperatureIdle

NextValidate == CallMultiply

SpecValidate == InitValidation /\ [][NextValidate]_vars

\* v is a Python integer: an int or a bool, which is one.
IsInteger(v) == v.type = "int" \/ v.type = "bool"

(***************************************************************************)
(* C15: a call multiply(x, y) with x or y not an integer raises            *)
(* ValueError("Both x and y need to be integers") without running          *)
(* multiply's body; with both integers the body runs once and the call     *)
(* returns its result, the product.                                        *)
(***************************************************************************)
C15_ValidateInputRaisesOrReturns ==
  viOutcome.kind # "none" =>
    IF ~IsInteger(viX) \/ ~IsInteger(viY)
    THEN /\ viOutcome.kind = "raise"
         /\ viOutcome.error = "ValueError: Both x and y need to be integers"
         /\ viCalls = viCallsBefore
    ELSE /\ viOutcome.kind = "return"
         /\ viOutcome.value = [type |-> "int", val |-> viX.val * viY.val]
         /\ viCalls = viCallsBefore + 1

C15_Witness ==
  /\ viX = Value("int", 2)
  /\ viY = Value("str", 3)
  /\ viOutcome.kind = "raise"
  /\ viCalls = viCallsBefore
  /\ viCalls > 0

(***************************************************************************)
(* Classes-checkpoint.ipynb: Temperature and its property celsius.         *)
(* Temperatures are counted in hundredths of a degree.                     *)
(***************************************************************************)
\* celsius.setter: if value < -273.15
BelowAbsoluteZeroOrAt(value) == value <= AbsoluteZero
BelowAbsoluteZero(value) == value < AbsoluteZero

TemperatureError == "ValueError: Temperature below -273.15 is not possible"

\* t.celsius = value: the setter.
SetCelsius ==
  \E value \in TempValues :
    /\ tAssigned' = value
    /\ tBefore' = tCelsius
    /\ IF BelowAbsoluteZero(value)
       THEN /\ tLastOp' = "raise"
            /\ tError' = TemperatureError
            /\ UNCHANGED tCelsius
       ELSE /\ tCelsius' = value
            /\ tLastOp' = "set"
            /\ tError' = ""
    /\ UNCHANGED <<tRead, otherThanTemperature>>

\* t.celsius: the getter.
GetCelsius ==
  /\ tRead' = tCelsius
  /\ tBefore' = tCelsius
  /\ tLastOp' = "get"
  /\ tError' = ""
  /\ UNCHANGED <<tCelsius, tAssigned, otherThanTemperature>>

InitTemperature ==
  /\ InitTemp(TempValues)
  /\ AsyncIdle
  /\ PatternsIdle
  /\ MemoIdle
  /\ CacheIdle
  /\ ValidateIdle
  /\ IteratorsIdle
  /\ AccumulatorIdle

NextTemperature ==
  \/ SetCelsius
  \/ GetCelsius

SpecTemperature == InitTemperature /\ [][NextTemperature]_vars

(***************************************************************************)
(* C16: an assignment to celsius of a value below -273.15 raises           *)
(* ValueError("Temperature below -273.15 is not possible") and leaves      *)
(* _celsius as it was; an assignment of a value of at least -273.15 stores *)
(* the value; a read of celsius returns what is stored, and what is stored *)
(* changes only with an assignment of a value of at least -273.15.         *)
(***************************************************************************)
C16_SetterRejectsBelowAbsoluteZero ==
  /\ [](/\ tLastOp \in {"set", "raise"} =>
             IF tAssigned < 0 - 27315
             THEN /\ tLastOp = "raise"
                  /\ tError = "ValueError: Temperature below -273.15 is not possible"
                  /\ tCelsius = tBefore
             ELSE /\ tLastOp = "set"
                  /\ tError = ""
                  /\ tCelsius = tAssigned
        /\ tLastOp = "get" => (tRead = tCelsius /\ tCelsius = tBefore))
  /\ [][tCelsius' # tCelsius =>
          /\ tLastOp' = "set"
          /\ tCelsius' = tAssigned'
          /\ tAssigned' >= 0 - 27315]_vars

C16_Witness ==
  /\ tLastOp = "raise"
  /\ tAssigned = AbsoluteZero - 1
  /\ tCelsius = AbsoluteZero
  /\ tRead = 0

====
